---- MODULE Spec2Model ----
(***************************************************************************)
(* Model of send_kudi_sms.py: the KudiSMS response parser                  *)
(* (parse_response), the single send (send_single), the phone validation   *)
(* (validate_phone_number) and the sequential send loop of main.           *)
(*                                                                         *)
(* Texts (Python str) are sequences of pieces.  A piece is a one-character *)
(* string, or, inside a response body, a whole JSON lexeme such as         *)
(* "\"status\"" (a JSON string literal) or "null"; inside a produced       *)
(* message a piece may also be a fixed chunk of an f-string.               *)
(* The pictographs that start the RESPONSE_CODES descriptions and the      *)
(* progress lines are left out of the text constants.                      *)
(***************************************************************************)
EXTENDS Integers, Sequences, FiniteSets, TLC

VARIABLES
    pc,                 \* position of main: "start", "send", "record", "throttle", "summary",
                        \* "done", or "crashed" after an uncaught exception
    KUDI_USERNAME,      \* environment, read at import (line 33)
    KUDI_PASSWORD,      \* line 34
    RECIPIENTS,         \* line 36, a text
    THROTTLE_SECONDS,   \* line 40, in tenths of a second
    validated_numbers,  \* main, line 209
    i,                  \* loop index of main, line 234 (1-based)
    result,             \* (success, status_msg, code) of the current send, line 238
    success_count,      \* line 231
    failed_count,       \* line 232
    report,             \* the outcomes recorded so far, one per finished iteration
    sent,               \* the phone numbers handed to send_single, in call order
    clock,              \* elapsed time in tenths of a second
    log,                \* history of loop events: [ev, idx, at]
    exit_code,          \* argument of sys.exit, -1 while running
    resp,               \* the response under resolution (resolver specification)
    parsed,             \* what parse_response(resp.text) gave
    outcome             \* what send_single gave for resp

vars == <<pc, KUDI_USERNAME, KUDI_PASSWORD, RECIPIENTS, THROTTLE_SECONDS,
          validated_numbers, i, result, success_count, failed_count, report,
          sent, clock, log, exit_code, resp, parsed, outcome>>

(***************************************************************************)
(* Bounds                                                                  *)
(***************************************************************************)
\* longest free-form text (body or RECIPIENTS) enumerated piece by piece
MaxLen == 3
\* most key/value pairs of an enumerated JSON object body
MaxFields == 2
\* most entries of an enumerated RECIPIENTS list
MaxRecipients == 3

(***************************************************************************)
(* Text helpers (Python str methods)                                       *)
(***************************************************************************)
Whitespace == {" ", "\t"}
DigitChars == {"0", "1", "2", "3", "4", "5", "6", "7", "8", "9"}

\* all sequences over S of length 0..n
SeqsUpTo(S, n) == UNION {[1..k -> S] : k \in 0..n}

RECURSIVE LStrip(_)
LStrip(s) == IF s # <<>> /\ Head(s) \in Whitespace THEN LStrip(Tail(s)) ELSE s

RECURSIVE RStrip(_)
RStrip(s) ==
    IF s # <<>> /\ s[Len(s)] \in Whitespace THEN RStrip(SubSeq(s, 1, Len(s) - 1)) ELSE s

\* str.strip()
Strip(s) == RStrip(LStrip(s))

\* str.startswith(prefix)
StartsWith(s, prefix) ==
    Len(s) >= Len(prefix) /\ SubSeq(s, 1, Len(prefix)) = prefix

\* str.isdigit(): non-empty and every character a digit
IsDigit(s) == s # <<>> /\ \A k \in 1..Len(s) : s[k] \in DigitChars

\* str.replace(ch, ""): drop every occurrence of the character ch
RECURSIVE Remove(_, _)
Remove(s, ch) ==
    IF s = <<>> THEN <<>>
    ELSE IF Head(s) = ch THEN Remove(Tail(s), ch)
    ELSE <<Head(s)>> \o Remove(Tail(s), ch)

\* str(n) for a natural number
RECURSIVE IntToStr(_)
IntToStr(n) ==
    LET d == <<"0", "1", "2", "3", "4", "5", "6", "7", "8", "9">>[(n % 10) + 1]
    IN IF n < 10 THEN <<d>> ELSE IntToStr(n \div 10) \o <<d>>

(***************************************************************************)
(* Python values as they come out of json.loads                            *)
(***************************************************************************)
PyStr(s) == [t |-> "str", v |-> s]
PyInt(ds) == [t |-> "int", v |-> ds]
PyNone == [t |-> "NoneType", v |-> <<"None">>]
\* v of a list or dict is its repr
PyList(r) == [t |-> "list", v |-> r]
PyDict(r) == [t |-> "dict", v |-> r]

PyEq(a, b) == a.t = b.t /\ a.v = b.v

\* str(value), as an f-string placeholder formats it
Str(val) == val.v

\* repr(value), as it appears inside the repr of a list or dict
Repr(val) == IF val.t = "str" THEN <<"'">> \o val.v \o <<"'">> ELSE val.v

\* hash(value) raises TypeError for list and dict
Hashable(val) == val.t \notin {"list", "dict"}

\* a dict is a sequence of <<key, value>> with distinct keys, in insertion order
RECURSIVE DictPut(_, _, _)
DictPut(d, k, val) ==
    IF d = <<>> THEN <<<<k, val>>>>
    ELSE IF Head(d)[1] = k THEN <<<<k, val>>>> \o Tail(d)
    ELSE <<Head(d)>> \o DictPut(Tail(d), k, val)

DictHas(d, k) == \E n \in 1..Len(d) : d[n][1] = k

\* dict.get(k, default)
DictGet(d, k, default) ==
    IF DictHas(d, k) THEN d[CHOOSE n \in 1..Len(d) : d[n][1] = k][2] ELSE default

RECURSIVE DictRepr(_)
DictRepr(d) ==
    IF d = <<>> THEN <<>>
    ELSE <<"'">> \o Head(d)[1] \o <<"'", ":", " ">> \o Repr(Head(d)[2])
         \o (IF Len(d) > 1 THEN <<",", " ">> ELSE <<>>) \o DictRepr(Tail(d))

(***************************************************************************)
(* json.loads on the lexemes of a body                                     *)
(***************************************************************************)
JsonWhitespace == {" ", "\t"}

\* the JSON string literals that occur as one piece of a body
StringLiterals ==
    {"\"status\"", "\"error\"", "\"errno\"", "\"count\"", "\"price\"",
     "\"OK\"", "\"bad\"", "\"100\"", "\"999\""}

\* the text between the quotes of a string literal
StringValue(lit) ==
    CASE lit = "\"status\"" -> <<"s", "t", "a", "t", "u", "s">>
      [] lit = "\"error\""  -> <<"e", "r", "r", "o", "r">>
      [] lit = "\"errno\""  -> <<"e", "r", "r", "n", "o">>
      [] lit = "\"count\""  -> <<"c", "o", "u", "n", "t">>
      [] lit = "\"price\""  -> <<"p", "r", "i", "c", "e">>
      [] lit = "\"OK\""     -> <<"O", "K">>
      [] lit = "\"bad\""    -> <<"b", "a", "d">>
      [] lit = "\"100\""    -> <<"1", "0", "0">>
      [] lit = "\"999\""    -> <<"9", "9", "9">>

SkipWs(s, n) ==
    IF \E m \in n..Len(s) : s[m] \notin JsonWhitespace
    THEN CHOOSE m \in n..Len(s) :
             s[m] \notin JsonWhitespace /\ \A q \in n..(m - 1) : s[q] \in JsonWhitespace
    ELSE Len(s) + 1

\* first position at or after n that holds no digit
DigitsEnd(s, n) ==
    IF \E m \in n..Len(s) : s[m] \notin DigitChars
    THEN CHOOSE m \in n..Len(s) :
             s[m] \notin DigitChars /\ \A q \in n..(m - 1) : s[q] \in DigitChars
    ELSE Len(s) + 1

\* a failed scan (json.JSONDecodeError)
JsonFail == [ok |-> FALSE, val |-> PyNone, pairs |-> <<>>, next |-> 0]
JsonOk(val, pairs, next) == [ok |-> TRUE, val |-> val, pairs |-> pairs, next |-> next]

RECURSIVE ParseValue(_, _), ParseMembers(_, _, _), ParseElements(_, _, _)

\* scan one JSON value that starts at position n
ParseValue(s, n) ==
    IF n > Len(s) THEN JsonFail
    ELSE IF s[n] \in StringLiterals THEN JsonOk(PyStr(StringValue(s[n])), <<>>, n + 1)
    ELSE IF s[n] = "null" THEN JsonOk(PyNone, <<>>, n + 1)
    ELSE IF s[n] = "0" THEN JsonOk(PyInt(<<"0">>), <<>>, n + 1)
    ELSE IF s[n] \in DigitChars
        THEN JsonOk(PyInt(SubSeq(s, n, DigitsEnd(s, n) - 1)), <<>>, DigitsEnd(s, n))
    ELSE IF s[n] = "["
        THEN LET m == SkipWs(s, n + 1)
             IN IF m <= Len(s) /\ s[m] = "]" THEN JsonOk(PyList(<<"[", "]">>), <<>>, m + 1)
                ELSE ParseElements(s, m, <<>>)
    ELSE IF s[n] = "{"
        THEN LET m == SkipWs(s, n + 1)
             IN IF m <= Len(s) /\ s[m] = "}" THEN JsonOk(PyDict(<<"{", "}">>), <<>>, m + 1)
                ELSE ParseMembers(s, m, <<>>)
    ELSE JsonFail

\* scan "value , value ... ]" from position n; acc is the repr of the elements so far
ParseElements(s, n, acc) ==
    LET e == ParseValue(s, n)
        m == SkipWs(s, e.next)
        r == acc \o Repr(e.val)
    IN IF ~e.ok \/ m > Len(s) THEN JsonFail
       ELSE IF s[m] = "]" THEN JsonOk(PyList(<<"[">> \o r \o <<"]">>), <<>>, m + 1)
       ELSE IF s[m] = "," THEN ParseElements(s, SkipWs(s, m + 1), r \o <<",", " ">>)
       ELSE JsonFail

\* scan "key : value , ... }" from position n; acc is the dict built so far
ParseMembers(s, n, acc) ==
    IF n > Len(s) \/ s[n] \notin StringLiterals THEN JsonFail
    ELSE LET c == SkipWs(s, n + 1)
         IN IF c > Len(s) \/ s[c] # ":" THEN JsonFail
            ELSE LET e == ParseValue(s, SkipWs(s, c + 1))
                     m == SkipWs(s, e.next)
                     d == DictPut(acc, StringValue(s[n]), e.val)
                 IN IF ~e.ok \/ m > Len(s) THEN JsonFail
                    ELSE IF s[m] = "}"
                        THEN JsonOk(PyDict(<<"{">> \o DictRepr(d) \o <<"}">>), d, m + 1)
                    ELSE IF s[m] = "," THEN ParseMembers(s, SkipWs(s, m + 1), d)
                    ELSE JsonFail

\* json.loads(text): one value, surrounded by optional whitespace, and nothing else
json_loads(text) ==
    LET e == ParseValue(text, SkipWs(text, 1))
    IN IF e.ok /\ SkipWs(text, e.next) = Len(text) + 1 THEN e ELSE JsonFail

(***************************************************************************)
(* parse_response and send_single                                          *)
(***************************************************************************)
RESPONSE_CODES ==
    (<<"0", "0", "0">> :> "Success - Message received successfully")
 @@ (<<"0", "0", "9">> :> "Warning - Maximum 6 pages of SMS allowed")
 @@ (<<"1", "0", "0">> :> "Error - Invalid token provided")
 @@ (<<"1", "0", "1">> :> "Error - Account deactivated, contact admin")
 @@ (<<"1", "0", "3">> :> "Error - Gateway doesn't exist")
 @@ (<<"1", "0", "4">> :> "Error - Blocked message keyword(s)")
 @@ (<<"1", "0", "5">> :> "Error - Sender ID has been blocked")
 @@ (<<"1", "0", "6">> :> "Error - Sender ID doesn't exist")
 @@ (<<"1", "0", "7">> :> "Error - Invalid phone number")
 @@ (<<"1", "0", "8">> :> "Error - Too many recipients (max 100 per batch)")
 @@ (<<"1", "0", "9">> :> "Error - Insufficient credit balance")
 @@ (<<"1", "1", "1">> :> "Error - Only approved promotional sender ID allowed")
 @@ (<<"1", "1", "4">> :> "Error - No package attached to service")
 @@ (<<"1", "8", "7">> :> "Error - Request could not be processed")
 @@ (<<"1", "8", "8">> :> "Error - Sender ID is unapproved")
 @@ (<<"3", "0", "0">> :> "Error - Missing required parameters")
 @@ (<<"4", "0", "1">> :> "Error - Request could not be completed")

\* RESPONSE_CODES.get(key, default) for a hashable key; the keys are all str
CodesGet(key, default) ==
    IF key.t = "str" /\ key.v \in DOMAIN RESPONSE_CODES
    THEN <<RESPONSE_CODES[key.v]>> ELSE default

\* the texts the code compares with or returns as codes
OK == <<"O", "K">>
SUCCESS_CODE == <<"0", "0", "0">>
UNKNOWN == <<"unknown">>
NOT_AVAILABLE == <<"N", "/", "A">>

\* what a call ends in: a returned (success, message, code), or a raised exception
\* with its text
Returned(success, message, code) ==
    [raised |-> FALSE, exc |-> "", success |-> success, message |-> message, code |-> code]
Raised(exc, text) ==
    [raised |-> TRUE, exc |-> exc, success |-> FALSE, message |-> text, code |-> PyNone]

\* line 78
LooksLikeJson(text) == StartsWith(text, <<"{">>)

\* line 84
StatusIsOk(data) == PyEq(DictGet(data, <<"s", "t", "a", "t", "u", "s">>, PyNone), PyStr(OK))

\* HasError taking an errno alone for an error reply
HasErrorOrErrno(data) ==
    DictHas(data, <<"e", "r", "r", "o", "r">>) \/ DictHas(data, <<"e", "r", "r", "n", "o">>)

\* line 90
HasError(data) == DictHas(data, <<"e", "r", "r", "o", "r">>)

\* lines 85-87
SuccessReply(data) ==
    LET count == DictGet(data, <<"c", "o", "u", "n", "t">>, PyStr(NOT_AVAILABLE))
        price == DictGet(data, <<"p", "r", "i", "c", "e">>, PyStr(NOT_AVAILABLE))
    IN Returned(TRUE,
                <<"Message sent successfully! Recipients: ">> \o Str(count)
                    \o <<", Cost: ">> \o Str(price) \o <<" units">>,
                PyStr(SUCCESS_CODE))

\* lines 91-94; the table lookup hashes errno, which raises for a list or a dict
ErrorReply(data) ==
    LET errno == DictGet(data, <<"e", "r", "r", "n", "o">>, PyStr(UNKNOWN))
        error_msg == DictGet(data, <<"e", "r", "r", "o", "r">>, PyStr(<<"Unknown error">>))
        code_desc == CodesGet(errno, <<"Unknown error code: ">> \o Str(errno))
    IN IF ~Hashable(errno) THEN Raised("TypeError", <<"unhashable type">>)
       ELSE Returned(FALSE, code_desc \o <<" - ">> \o Str(error_msg), errno)

\* CodeIsSuccess comparing the code as a number with 0
CodeIsZero(code) == \A n \in 1..Len(code) : code[n] = "0"

\* line 103
CodeIsSuccess(code) == code = SUCCESS_CODE

\* lines 100-104
NumericReply(text) ==
    Returned(CodeIsSuccess(text),
             CodesGet(PyStr(text), <<"Unknown response code: ">> \o text),
             PyStr(text))

\* line 107
UnexpectedReply(text) ==
    Returned(FALSE, <<"Unexpected API response: ">> \o text, PyStr(UNKNOWN))

\* PlainReply with an OK marker accepted ahead of the numeric test
PlainReplyOkMarker(text) ==
    IF Len(text) >= 2 /\ text[1] \in {"O", "o"} /\ text[2] \in {"K", "k"}
    THEN Returned(TRUE, text, PyStr(OK))
    ELSE IF IsDigit(text) THEN NumericReply(text) ELSE UnexpectedReply(text)

\* lines 99-107
PlainReply(text) == IF IsDigit(text) THEN NumericReply(text) ELSE UnexpectedReply(text)

\* parse_response with the error test ahead of the status test
parse_response_error_first(response_text) ==
    LET text == Strip(response_text)
        j == json_loads(text)
    IN IF LooksLikeJson(text) /\ j.ok
       THEN IF HasError(j.pairs) THEN ErrorReply(j.pairs)
            ELSE IF StatusIsOk(j.pairs) THEN SuccessReply(j.pairs)
            ELSE PlainReply(text)
       ELSE PlainReply(text)

\* lines 65-107
parse_response(response_text) ==
    LET text == Strip(response_text)
        j == json_loads(text)
    IN IF LooksLikeJson(text) /\ j.ok
       THEN IF StatusIsOk(j.pairs) THEN SuccessReply(j.pairs)
            ELSE IF HasError(j.pairs) THEN ErrorReply(j.pairs)
            ELSE PlainReply(text)
       ELSE PlainReply(text)

\* what requests.post ended in: a response, or one of the exceptions of lines 142-146
HttpResponse(status_code, text) ==
    [kind |-> "response", status_code |-> status_code, text |-> text, err |-> ""]
PostRaised(kind, err) == [kind |-> kind, status_code |-> 0, text |-> <<>>, err |-> err]

\* HttpRejected letting every 2xx status through
HttpRejectedNon2xx(status_code) == status_code \notin 200..299

\* line 135
HttpRejected(status_code) == status_code # 200

\* lines 131-140: the body of the try statement, given what requests.post ended in
TryBody(r) ==
    IF r.kind # "response" THEN Raised(r.kind, <<r.err>>)
    ELSE IF HttpRejected(r.status_code)
    THEN Returned(FALSE,
                  <<"HTTP ">> \o IntToStr(r.status_code) \o <<": ">> \o r.text,
                  PyStr(<<"HTTP_">> \o IntToStr(r.status_code)))
    ELSE parse_response(r.text)

\* Catch without the last except clause
CatchNetworkOnly(p) ==
    IF ~p.raised THEN p
    ELSE IF p.exc = "Timeout"
    THEN Returned(FALSE, <<"Request timeout after 30 seconds">>, PyStr(<<"TIMEOUT">>))
    ELSE IF p.exc = "ConnectionError"
    THEN Returned(FALSE, <<"Connection error: ">> \o p.message, PyStr(<<"CONN_ERROR">>))
    ELSE p

\* lines 142-147: the except clauses; every other exception is an Exception
Catch(p) ==
    IF ~p.raised THEN p
    ELSE IF p.exc = "Timeout"
    THEN Returned(FALSE, <<"Request timeout after 30 seconds">>, PyStr(<<"TIMEOUT">>))
    ELSE IF p.exc = "ConnectionError"
    THEN Returned(FALSE, <<"Connection error: ">> \o p.message, PyStr(<<"CONN_ERROR">>))
    ELSE Returned(FALSE, <<"Unexpected error: ">> \o p.message, PyStr(<<"EXCEPTION">>))

\* lines 110-147
send_single(r) == Catch(TryBody(r))

(***************************************************************************)
(* validate_phone_number and the recipient parsing of main                 *)
(***************************************************************************)
\* line 164: the length of a local number, leading 0 included
LocalLength == 11

Accepted(value) == [ok |-> TRUE, value |-> value]
Rejected(value) == [ok |-> FALSE, value |-> value]

\* line 160
BadFormat(phone_clean) == ~StartsWith(phone_clean, <<"+">>) /\ ~IsDigit(phone_clean)

\* lines 164-168
Normalize(phone_clean) ==
    IF StartsWith(phone_clean, <<"0">>) /\ Len(phone_clean) = LocalLength
    THEN <<"+", "2", "3", "4">> \o Tail(phone_clean)
    ELSE IF StartsWith(phone_clean, <<"2", "3", "4">>) /\ ~StartsWith(phone_clean, <<"+">>)
    THEN <<"+">> \o phone_clean
    ELSE phone_clean

\* lines 150-170
validate_phone_number(raw) ==
    LET phone == Strip(raw)
        phone_clean == Remove(Remove(phone, " "), "-")
    IN IF phone = <<>> THEN Rejected(<<"Empty phone number">>)
       ELSE IF BadFormat(phone_clean) THEN Rejected(<<"Invalid format: ">> \o phone)
       ELSE Accepted(Normalize(phone_clean))

\* str.split(","): the pieces between the commas, empty ones included
RECURSIVE Split(_, _)
Split(s, cur) ==
    IF s = <<>> THEN <<cur>>
    ELSE IF Head(s) = "," THEN <<cur>> \o Split(Tail(s), <<>>)
    ELSE Split(Tail(s), Append(cur, Head(s)))

\* line 201
RECURSIVE StripNonEmpty(_)
StripNonEmpty(parts) ==
    IF parts = <<>> THEN <<>>
    ELSE (IF Strip(Head(parts)) # <<>> THEN <<Strip(Head(parts))>> ELSE <<>>)
         \o StripNonEmpty(Tail(parts))

raw_numbers(recipients) == StripNonEmpty(Split(recipients, <<>>))

\* lines 209-215
RECURSIVE ValidatedOf(_)
ValidatedOf(nums) ==
    IF nums = <<>> THEN <<>>
    ELSE (IF validate_phone_number(Head(nums)).ok
          THEN <<validate_phone_number(Head(nums)).value>> ELSE <<>>)
         \o ValidatedOf(Tail(nums))

\* lines 180-186
MissingEnv == KUDI_USERNAME = "" \/ KUDI_PASSWORD = "" \/ RECIPIENTS = <<>>

\* ThrottleDue sleeping after the last recipient too
ThrottleAlways(idx, total) == idx <= total

\* line 248
ThrottleDue(idx, total) == idx < total

\* line 261
ExitCode(failed) == IF failed = 0 THEN 0 ELSE 1

(***************************************************************************)
(* Inputs                                                                  *)
(***************************************************************************)
Join(a, b) == a \o <<",">> \o b

RECURSIVE JoinAll(_)
JoinAll(parts) ==
    IF parts = <<>> THEN <<>>
    ELSE IF Len(parts) = 1 THEN Head(parts)
    ELSE Join(Head(parts), JoinAll(Tail(parts)))

\* entries of RECIPIENTS: a local number, an international one, a rejected one
SampleNumbers ==
    {<<"0", "8", "0", "3", "0", "0", "0", "0", "0", "0", "0">>,
     <<"+", "2", "3", "4", "8", "0", "3", "0", "0", "0", "0", "0", "0", "0">>,
     <<"x">>}

PhoneAlphabet == {"+", "0", "2", "3", "4", "x", " ", "-", ","}

RecipientTexts ==
    {JoinAll(l) : l \in SeqsUpTo(SampleNumbers, MaxRecipients)}
        \cup SeqsUpTo(PhoneAlphabet, MaxLen)

\* what requests.post can end in during a run of main
NetResults ==
    {PostRaised("Timeout", ""), PostRaised("ConnectionError", "refused"),
     PostRaised("Exception", "boom"),
     HttpResponse(200, <<"0", "0", "0">>),
     HttpResponse(503, <<"x">>),
     HttpResponse(200, <<"{", "\"error\"", ":", "\"bad\"", ",", "\"errno\"", ":", "[", "1", "]", "}">>)}

BodyAlphabet == {" ", "0", "1", "9", "O", "K", "k", "{", "}"}

\* a JSON member: the key literal and the lexemes of its value
Members ==
    {<<"\"status\"", <<"\"OK\"">>>>, <<"\"status\"", <<"\"bad\"">>>>,
     <<"\"error\"", <<"\"bad\"">>>>,
     <<"\"errno\"", <<"\"100\"">>>>, <<"\"errno\"", <<"\"999\"">>>>,
     <<"\"errno\"", <<"1", "0", "0">>>>, <<"\"errno\"", <<"null">>>>,
     <<"\"errno\"", <<"[", "1", "]">>>>, <<"\"errno\"", <<"{", "}">>>>,
     <<"\"count\"", <<"1">>>>, <<"\"price\"", <<"2">>>>}

RECURSIVE RenderMembers(_)
RenderMembers(ms) ==
    IF ms = <<>> THEN <<>>
    ELSE <<Head(ms)[1], ":">> \o Head(ms)[2]
         \o (IF Len(ms) > 1 THEN <<",">> ELSE <<>>) \o RenderMembers(Tail(ms))

Render(ms) == <<"{">> \o RenderMembers(ms) \o <<"}">>

ObjectBodies == {Render(ms) : ms \in SeqsUpTo(Members, MaxFields)}

Bodies ==
    SeqsUpTo(BodyAlphabet, MaxLen)
        \cup ObjectBodies
        \cup {<<" ">> \o b \o <<"\t">> : b \in ObjectBodies}
        \cup {SubSeq(b, 1, Len(b) - 1) : b \in ObjectBodies}

Statuses == {199, 200, 201, 204, 299, 300, 404, 503}

Responses ==
    {HttpResponse(c, b) : c \in Statuses, b \in Bodies}
        \cup {PostRaised("Timeout", ""), PostRaised("ConnectionError", "refused"),
              PostRaised("Exception", "boom")}

\* THROTTLE_SECONDS in tenths of a second: no delay, and the default of 0.6 s;
\* a delay is never negative
Throttles == {0, 6}

(***************************************************************************)
(* The run of main                                                         *)
(***************************************************************************)
ResolverIdle == resp = PostRaised("Timeout", "") /\ parsed = <<>> /\ outcome = <<>>

Init ==
    /\ pc = "start"
    /\ KUDI_USERNAME \in {"", "user"}
    /\ KUDI_PASSWORD \in {"", "secret"}
    /\ RECIPIENTS \in RecipientTexts
    /\ THROTTLE_SECONDS \in Throttles
    /\ validated_numbers = <<>>
    /\ i = 0
    /\ result = <<>>
    /\ success_count = 0
    /\ failed_count = 0
    /\ report = <<>>
    /\ sent = <<>>
    /\ clock = 0
    /\ log = <<>>
    /\ exit_code = -1
    /\ ResolverIdle

\* threw: whether the try body of that send raised
Event(ev, idx, threw) == [ev |-> ev, idx |-> idx, at |-> clock, threw |-> threw]

\* Tally counting every outcome
TallyAll(count, hit) == count + 1

\* lines 240-245: one of the two counters
Tally(count, hit) == IF hit THEN count + 1 ELSE count

\* lines 179-232: the environment check, the recipient parsing and validation
MainStart ==
    /\ pc = "start"
    /\ LET valid == ValidatedOf(raw_numbers(RECIPIENTS))
       IN IF MissingEnv \/ raw_numbers(RECIPIENTS) = <<>> \/ valid = <<>>
          THEN /\ pc' = "done"
               /\ exit_code' = 1
               /\ UNCHANGED <<validated_numbers, i>>
          ELSE /\ pc' = "send"
               /\ validated_numbers' = valid
               /\ i' = 1
               /\ UNCHANGED exit_code
    /\ UNCHANGED <<KUDI_USERNAME, KUDI_PASSWORD, RECIPIENTS, THROTTLE_SECONDS, result,
                   success_count, failed_count, report, sent, clock, log,
                   resp, parsed, outcome>>

\* line 238: send_single(phone, MESSAGE), whatever requests.post ends in; an
\* exception that leaves send_single leaves main too and ends the process
Send ==
    /\ pc = "send"
    /\ \E r \in NetResults :
          /\ result' = <<send_single(r)>>
          /\ log' = Append(log, Event("send", i, TryBody(r).raised))
    /\ sent' = Append(sent, validated_numbers[i])
    /\ IF result'[1].raised
       THEN pc' = "crashed" /\ exit_code' = 1
       ELSE pc' = "record" /\ UNCHANGED exit_code
    /\ UNCHANGED <<KUDI_USERNAME, KUDI_PASSWORD, RECIPIENTS, THROTTLE_SECONDS,
                   validated_numbers, i, success_count, failed_count, report, clock,
                   resp, parsed, outcome>>

\* lines 240-245
Record ==
    /\ pc = "record"
    /\ success_count' = Tally(success_count, result[1].success)
    /\ failed_count' = Tally(failed_count, ~result[1].success)
    /\ report' = Append(report, result[1])
    /\ log' = Append(log, Event("record", i, FALSE))
    /\ pc' = "throttle"
    /\ UNCHANGED <<KUDI_USERNAME, KUDI_PASSWORD, RECIPIENTS, THROTTLE_SECONDS,
                   validated_numbers, i, result, sent, clock, exit_code,
                   resp, parsed, outcome>>

\* lines 248-249, then the next iteration of line 234
Throttle ==
    /\ pc = "throttle"
    /\ ThrottleDue(i, Len(validated_numbers))
    /\ clock' = clock + THROTTLE_SECONDS
    /\ log' = Append(log, Event("sleep", i, FALSE))
    /\ IF i < Len(validated_numbers)
       THEN pc' = "send" /\ i' = i + 1
       ELSE pc' = "summary" /\ UNCHANGED i
    /\ UNCHANGED <<KUDI_USERNAME, KUDI_PASSWORD, RECIPIENTS, THROTTLE_SECONDS,
                   validated_numbers, result, success_count, failed_count, report, sent,
                   exit_code, resp, parsed, outcome>>

\* line 248 not taken: the next iteration, or the end of the loop
NoThrottle ==
    /\ pc = "throttle"
    /\ ~ThrottleDue(i, Len(validated_numbers))
    /\ IF i < Len(validated_numbers)
       THEN pc' = "send" /\ i' = i + 1
       ELSE pc' = "summary" /\ UNCHANGED i
    /\ UNCHANGED <<KUDI_USERNAME, KUDI_PASSWORD, RECIPIENTS, THROTTLE_SECONDS,
                   validated_numbers, result, success_count, failed_count, report, sent,
                   clock, log, exit_code, resp, parsed, outcome>>

\* lines 251-261
Summary ==
    /\ pc = "summary"
    /\ exit_code' = ExitCode(failed_count)
    /\ pc' = "done"
    /\ UNCHANGED <<KUDI_USERNAME, KUDI_PASSWORD, RECIPIENTS, THROTTLE_SECONDS,
                   validated_numbers, i, result, success_count, failed_count, report,
                   sent, clock, log, resp, parsed, outcome>>

Next == MainStart \/ Send \/ Record \/ Throttle \/ NoThrottle \/ Summary

Spec == Init /\ [][Next]_vars

(***************************************************************************)
(* The resolver on its own: parse_response and send_single applied to one  *)
(* response                                                                *)
(***************************************************************************)
MainIdle ==
    /\ pc = "idle"
    /\ KUDI_USERNAME = "user"
    /\ KUDI_PASSWORD = "secret"
    /\ RECIPIENTS = <<>>
    /\ THROTTLE_SECONDS = 0
    /\ validated_numbers = <<>>
    /\ i = 0
    /\ result = <<>>
    /\ success_count = 0
    /\ failed_count = 0
    /\ report = <<>>
    /\ sent = <<>>
    /\ clock = 0
    /\ log = <<>>
    /\ exit_code = -1

MainVars == <<pc, KUDI_USERNAME, KUDI_PASSWORD, RECIPIENTS, THROTTLE_SECONDS,
              validated_numbers, i, result, success_count, failed_count, report,
              sent, clock, log, exit_code>>

InitResolve ==
    /\ MainIdle
    /\ resp \in Responses
    /\ parsed = <<>>
    /\ outcome = <<>>

\* line 139 on its own: parse_response(resp.text)
ParseResponse ==
    /\ resp.kind = "response"
    /\ parsed = <<>>
    /\ parsed' = <<parse_response(resp.text)>>
    /\ UNCHANGED <<MainVars, resp, outcome>>

\* lines 130-147: send_single once requests.post has ended in resp
SendSingle ==
    /\ outcome = <<>>
    /\ outcome' = <<send_single(resp)>>
    /\ UNCHANGED <<MainVars, resp, parsed>>

NextResolve == ParseResponse \/ SendSingle

SpecResolve == InitResolve /\ [][NextResolve]_vars

(***************************************************************************)
(* Properties of the send loop (specification Spec)                        *)
(***************************************************************************)
Total == Len(validated_numbers)

\* the positions of the log that hold the send to recipient k
SendsTo(k) == {j \in 1..Len(log) : log[j].ev = "send" /\ log[j].idx = k}

Sleeps == {j \in 1..Len(log) : log[j].ev = "sleep"}

\* C1: send_single is called once per validated recipient, in list order, one
\* outcome is recorded per recipient, success_count is the number of successful
\* outcomes, and when the loop is over success_count + failed_count is the
\* number of recipients.
C1_OneOutcomePerRecipient ==
    /\ Len(sent) <= Total
    /\ sent = SubSeq(validated_numbers, 1, Len(sent))
    /\ success_count = Cardinality({k \in 1..Len(report) : report[k].success})
    /\ (pc \in {"summary", "done"} /\ Total >= 1) =>
          /\ sent = validated_numbers
          /\ \A k \in 1..Total : Cardinality(SendsTo(k)) = 1
          /\ Len(report) = Total
          /\ success_count + failed_count = Total

C1_Witness ==
    pc = "done" /\ Total >= 2 /\ success_count >= 1 /\ failed_count >= 1

\* C2: a send whose try body raised (timeout, connection error, any other
\* exception) is recorded as a failed outcome, no exception leaves send_single,
\* and the finished run has attempted every recipient.
C2_NeverStopsEarly ==
    /\ pc # "crashed"
    /\ \A k \in 1..Len(report) :
          (\E j \in SendsTo(k) : log[j].threw) => ~report[k].success
    /\ pc = "done" => \A k \in 1..Total : SendsTo(k) # {} /\ k <= Len(report)

C2_Witness ==
    /\ pc = "done"
    /\ Len(report) = 3
    /\ \E j \in SendsTo(2) : log[j].threw
    /\ report[1].success
    /\ ~report[2].success
    /\ report[3].success

\* C9: the log of a run is send 1, record 1, sleep 1, send 2, ...: a sleep
\* follows the record of every recipient but the last, each send after the
\* first starts when the sleep before it is over, and the finished run has
\* slept once less than it has sent.
C9_ThrottleBetweenSends ==
    /\ \A j \in 1..Len(log) :
          /\ log[j].ev = <<"send", "record", "sleep">>[((j - 1) % 3) + 1]
          /\ log[j].idx = ((j - 1) \div 3) + 1
          /\ log[j].ev = "sleep" => log[j].idx < Total
          /\ (log[j].ev = "send" /\ j > 1) =>
                /\ log[j - 1].ev = "sleep"
                /\ log[j].at = log[j - 1].at + THROTTLE_SECONDS
                /\ log[j - 1].at >= log[j - 2].at
    /\ (pc = "done" /\ Total >= 1) =>
          /\ Cardinality(Sleeps) = Total - 1
          /\ log[Len(log)].ev = "record"
          /\ log[Len(log)].idx = Total

C9_Witness ==
    /\ pc = "done"
    /\ Total >= 2
    /\ THROTTLE_SECONDS > 0
    /\ ~report[Total].success
    /\ Cardinality(Sleeps) = Total - 1

\* a number in dialable form: digits only, after an optional leading "+", and
\* starting with the country code
Dialable(phone) ==
    LET digits == IF StartsWith(phone, <<"+">>) THEN Tail(phone) ELSE phone
    IN IsDigit(digits) /\ StartsWith(digits, <<"2", "3", "4">>)

\* C10: every number handed to send_single is in dialable form; malformed
\* entries of RECIPIENTS are never sent to.
C10_OnlyDialableSent == \A k \in 1..Len(sent) : Dialable(sent[k])

(***************************************************************************)
(* Properties of the resolver (specification SpecResolve)                  *)
(***************************************************************************)
Trimmed == Strip(resp.text)

Decoded == json_loads(Trimmed)

\* the body decodes as a JSON object
IsObject == Trimmed # <<>> /\ Trimmed[1] = "{" /\ Decoded.ok

HasKey(k) == \E n \in 1..Len(Decoded.pairs) : Decoded.pairs[n][1] = k

ValueOf(k) == Decoded.pairs[CHOOSE n \in 1..Len(Decoded.pairs) : Decoded.pairs[n][1] = k][2]

StatusOk ==
    /\ HasKey(<<"s", "t", "a", "t", "u", "s">>)
    /\ ValueOf(<<"s", "t", "a", "t", "u", "s">>) = [t |-> "str", v |-> <<"O", "K">>]

ErrorKey == <<"e", "r", "r", "o", "r">>
ErrnoKey == <<"e", "r", "r", "n", "o">>

\* the description of a code, or the fallback text followed by the code
Describe(code, fallback) ==
    IF code.t = "str" /\ code.v \in DOMAIN RESPONSE_CODES
    THEN <<RESPONSE_CODES[code.v]>> ELSE <<fallback>> \o code.v

Failure(message, code) ==
    [raised |-> FALSE, exc |-> "", success |-> FALSE, message |-> message, code |-> code]
Success(message, code) ==
    [raised |-> FALSE, exc |-> "", success |-> TRUE, message |-> message, code |-> code]

HttpFailure ==
    Failure(<<"HTTP ">> \o IntToStr(resp.status_code) \o <<": ">> \o resp.text,
            [t |-> "str", v |-> <<"HTTP_">> \o IntToStr(resp.status_code)])

\* what send_single makes of the result of parse_response
AfterParse(p) ==
    IF p.raised
    THEN Failure(<<"Unexpected error: ">> \o p.message, [t |-> "str", v |-> <<"EXCEPTION">>])
    ELSE p

Resolved == outcome # <<>> /\ parsed # <<>> /\ resp.kind = "response"

\* C3, as claimed: a status outside 200..299 gives the HTTP failure whatever the
\* body, and a status inside 200..299 gives what parsing the body gives.
C3_RejectsOutside2xx ==
    Resolved =>
        IF resp.status_code \notin 200..299
        THEN outcome[1] = HttpFailure
        ELSE outcome[1] = AfterParse(parsed[1])

\* C3, amended: a status other than 200 gives the HTTP failure whatever the
\* body, and status 200 gives what parsing the body gives.
C3_RejectsAllBut200 ==
    Resolved =>
        IF resp.status_code # 200
        THEN outcome[1] = HttpFailure
        ELSE outcome[1] = AfterParse(parsed[1])

C3_Witness ==
    /\ Resolved
    /\ resp.status_code = 201
    /\ resp.text = <<"0", "0", "0">>
    /\ parsed[1].success
    /\ ~outcome[1].success

\* C4: parse_response returns a result for every body and never raises.
C4_ParseNeverRaises ==
    (parsed # <<>> /\ resp.status_code = 200) => ~parsed[1].raised

Lower(s) ==
    [n \in 1..Len(s) |-> IF s[n] = "O" THEN "o" ELSE IF s[n] = "K" THEN "k" ELSE s[n]]

StartsWithOk == StartsWith(Lower(Trimmed), <<"o", "k">>)

\* C5, as claimed: a body that is no JSON object and starts, trimmed and
\* whatever the case, with OK gives Success with code OK and the raw body as
\* detail.
C5_OkMarkerIsSuccess ==
    (parsed # <<>> /\ ~IsObject /\ StartsWithOk) =>
        parsed[1] = Success(resp.text, [t |-> "str", v |-> <<"O", "K">>])

\* C5, amended: such a body gives Failure with code unknown and the detail
\* "Unexpected API response: " followed by the trimmed body.
C5_OkMarkerIsUnexpected ==
    (parsed # <<>> /\ ~IsObject /\ StartsWithOk) =>
        parsed[1] = Failure(<<"Unexpected API response: ">> \o Trimmed,
                            [t |-> "str", v |-> <<"unknown">>])

C5_Witness ==
    parsed # <<>> /\ StartsWithOk /\ Len(resp.text) > Len(Trimmed) /\ ~parsed[1].success

ErrnoOrUnknown == IF HasKey(ErrnoKey) THEN ValueOf(ErrnoKey) ELSE [t |-> "str", v |-> <<"unknown">>]

\* C6, as claimed: an object with an errno or an error field and no status OK
\* gives Failure with the errno (or unknown) as code and the description of the
\* code (or "Unknown response code: " and the code) as detail.
C6_ErrorIndicatorFails ==
    (parsed # <<>> /\ IsObject /\ ~StatusOk /\ (HasKey(ErrnoKey) \/ HasKey(ErrorKey))) =>
        parsed[1] = Failure(Describe(ErrnoOrUnknown, "Unknown response code: "), ErrnoOrUnknown)

\* C6, amended: an object with an error field and no status OK gives Failure
\* with the errno (or unknown) as code and, as detail, the description of the
\* code (or "Unknown error code: " and the code), " - " and the error text,
\* unless the errno is a list or an object, for which the call raises
\* TypeError; an object with an errno and no error field gives the Failure of an
\* unexpected response, with code unknown.
C6_ErrorFieldDecides ==
    (parsed # <<>> /\ IsObject /\ ~StatusOk) =>
        /\ (HasKey(ErrorKey) /\ ErrnoOrUnknown.t \notin {"list", "dict"}) =>
              parsed[1] = Failure(Describe(ErrnoOrUnknown, "Unknown error code: ")
                                      \o <<" - ">> \o ValueOf(ErrorKey).v,
                                  ErrnoOrUnknown)
        /\ (HasKey(ErrorKey) /\ ErrnoOrUnknown.t \in {"list", "dict"}) =>
              parsed[1].raised /\ parsed[1].exc = "TypeError"
        /\ (~HasKey(ErrorKey) /\ HasKey(ErrnoKey)) =>
              parsed[1] = Failure(<<"Unexpected API response: ">> \o Trimmed,
                                  [t |-> "str", v |-> <<"unknown">>])

C6_Witness ==
    /\ parsed # <<>>
    /\ IsObject
    /\ ~StatusOk
    /\ HasKey(ErrorKey)
    /\ HasKey(ErrnoKey)
    /\ parsed[1].code = [t |-> "str", v |-> <<"1", "0", "0">>]
    /\ parsed[1].message = <<"Error - Invalid token provided", " - ", "b", "a", "d">>

AllDigits == Trimmed # <<>> /\ \A n \in 1..Len(Trimmed) : Trimmed[n] \in DigitChars

\* C7: an all-digit trimmed body is returned as the code, with its description
\* (or "Unknown response code: " and the code) as detail, and is Success exactly
\* when it is 000.
C7_NumericCode ==
    (parsed # <<>> /\ AllDigits) =>
        /\ ~parsed[1].raised
        /\ parsed[1].code = [t |-> "str", v |-> Trimmed]
        /\ parsed[1].message =
              Describe([t |-> "str", v |-> Trimmed], "Unknown response code: ")
        /\ parsed[1].success <=> (Trimmed = <<"0", "0", "0">>)

C7_Witness ==
    /\ parsed # <<>>
    /\ AllDigits
    /\ Trimmed = <<"0", "0", "9">>
    /\ parsed[1].message = <<"Warning - Maximum 6 pages of SMS allowed">>
    /\ ~parsed[1].success

CountOrPlaceholder(k) == IF HasKey(k) THEN ValueOf(k).v ELSE <<"N", "/", "A">>

\* C8: an object whose status is OK gives Success with code 000 and a detail
\* made of the count and the price (N/A when absent), also when the object
\* carries an error or an errno.
C8_StatusOkFirst ==
    (parsed # <<>> /\ IsObject /\ StatusOk) =>
        parsed[1] = Success(<<"Message sent successfully! Recipients: ">>
                                \o CountOrPlaceholder(<<"c", "o", "u", "n", "t">>)
                                \o <<", Cost: ">>
                                \o CountOrPlaceholder(<<"p", "r", "i", "c", "e">>)
                                \o <<" units">>,
                            [t |-> "str", v |-> <<"0", "0", "0">>])

C8_Witness ==
    /\ parsed # <<>>
    /\ IsObject
    /\ StatusOk
    /\ HasKey(ErrorKey)
    /\ parsed[1].success

====
